---- MODULE Spec2Model ----
(***************************************************************************)
(* Model of the truebner-smt100 driver crate: the register decoders of     *)
(* src/core/modbus/mod.rs and the slave proxy of src/modbus/mod.rs.        *)
(*                                                                         *)
(* Floating point values are represented by their numerator in hundredths: *)
(* the code computes f64::from(n) / 100f64 for an integer n with           *)
(* |n| <= 65535, the correctly rounded quotient, which is strictly         *)
(* monotone in n on that range, so every comparison the code makes on the  *)
(* quotients is the comparison of the numerators.                          *)
(***************************************************************************)
EXTENDS Integers, Sequences, FiniteSets, TLC

VARIABLES
    input,      \* the argument handed to a decoder
    output,     \* the decoder applied and what it returned
    proxies,    \* SlaveProxy instances: proxies[p] is the slave of proxy p
    context,    \* SharedContext.context: 0 (None) or the link held
    link_slave, \* link_slave[l]: the slave set on the client context of link l
    exchanges,  \* request futures in flight on the transport
    connecting, \* reconnect futures in flight
    returned,   \* the result most recently delivered to a caller
    pc,         \* the position of the control loop
    measurements, \* the measurements the control loop has stored
    cycle,      \* what the current cycle of the control loop has done so far
    mock,       \* the fields of the mock proxy
    calls       \* delayed read futures of the mock in flight

decvars == <<input, output>>
sessvars == <<proxies, context, link_slave, exchanges, connecting, returned>>
loopvars == <<pc, measurements, cycle>>
mockvars == <<mock, calls>>
vars == <<input, output, proxies, context, link_slave, exchanges, connecting, returned,
          pc, measurements, cycle, mock, calls>>

(***************************************************************************)
(* Machine types                                                           *)
(***************************************************************************)
U8Max == 255
U16Max == 65535
SizeOfU16 == 2

U8 == 0..U8Max
U16 == 0..U16Max

(***************************************************************************)
(* Bounds of the decoder inputs: the bytes behind the register word.       *)
(***************************************************************************)
MaxTail == 1

\* The i-th byte behind the register word: every position carries its own value.
TailByte(i) == (160 + 17 * i) % (U8Max + 1)

Trailing(n) == [i \in 1..n |-> TailByte(i)]

(***************************************************************************)
(* Results                                                                 *)
(***************************************************************************)
Ok(v) == [ok |-> TRUE, val |-> v]
Err(e) == [ok |-> FALSE, err |-> e]

None == [fn |-> "none"]

(***************************************************************************)
(* Unit types, src/core/mod.rs (values in hundredths)                      *)
(***************************************************************************)
Hundredths == 100

VolumetricWaterContent_min_percent == 0 * Hundredths
VolumetricWaterContent_max_percent == 100 * Hundredths
RelativePermittivity_min_ratio == 1 * Hundredths

\* #[repr(transparent)] struct VolumetricWaterContent(f64)
VolumetricWaterContent_from_percent(percent) == percent
VolumetricWaterContent_to_percent(v) == v

\* Variant: the lower limit left unchecked.
VolumetricWaterContent_is_valid_upper_only(v) == v <= VolumetricWaterContent_max_percent

\* Variant: the upper limit taken as exclusive.
VolumetricWaterContent_is_valid_exclusive(v) ==
    v >= VolumetricWaterContent_min_percent /\ v < VolumetricWaterContent_max_percent

VolumetricWaterContent_is_valid(v) ==
    v >= VolumetricWaterContent_min_percent /\ v <= VolumetricWaterContent_max_percent

\* Variant: the lower limit taken as exclusive.
RelativePermittivity_is_valid_exclusive(v) == v > RelativePermittivity_min_ratio

RelativePermittivity_is_valid(v) == v >= RelativePermittivity_min_ratio

(***************************************************************************)
(* Register decoders, src/core/modbus/mod.rs                               *)
(***************************************************************************)
TemperatureOffset == 10000

from_be_bytes(bytes) == bytes[1] * (U8Max + 1) + bytes[2]

\* Variant: the two bytes of the word read in little-endian order.
decode_le_u16_from_bytes(in) ==
    IF Len(in) < SizeOfU16
    THEN Err("InsufficientInput")
    ELSE LET head == SubSeq(in, 1, SizeOfU16)
             rest == SubSeq(in, SizeOfU16 + 1, Len(in))
         IN  IF Len(head) = SizeOfU16
             THEN Ok(<<from_be_bytes(<<head[2], head[1]>>), rest>>)
             ELSE Err("InvalidInput")

decode_be_u16_from_bytes(in) ==
    IF Len(in) < SizeOfU16
    THEN Err("InsufficientInput")
    ELSE LET head == SubSeq(in, 1, SizeOfU16)
             rest == SubSeq(in, SizeOfU16 + 1, Len(in))
         IN  IF Len(head) = SizeOfU16
             THEN Ok(<<from_be_bytes(head), rest>>)
             ELSE Err("InvalidInput")

\* Variant: the subtraction done in u16 (wrapping) instead of i32.
decode_temperature_from_u16_wrapping(in) == Ok((in - TemperatureOffset) % (U16Max + 1))

decode_temperature_from_u16(in) == Ok(in - TemperatureOffset)

decode_water_content_from_u16(in) ==
    IF VolumetricWaterContent_is_valid(in) THEN Ok(in) ELSE Err("InvalidData")

decode_permittivity_from_u16(in) ==
    IF RelativePermittivity_is_valid(in) THEN Ok(in) ELSE Err("InvalidData")

\* struct RawCounts(u16), impl From<u16> for RawCounts, impl From<RawCounts> for u16
RawCounts_from_u16(from) == from
u16_from_RawCounts(from) == from

\* Variant: the counts narrowed to 8 bits.
decode_raw_counts_from_u16_narrowed(in) == Ok(RawCounts_from_u16(in % (U8Max + 1)))

decode_raw_counts_from_u16(in) == Ok(RawCounts_from_u16(in))

Quantities == {"temperature", "water_content", "permittivity", "raw_counts"}

decode_from_u16(q, in) ==
    CASE q = "temperature" -> decode_temperature_from_u16(in)
      [] q = "water_content" -> decode_water_content_from_u16(in)
      [] q = "permittivity" -> decode_permittivity_from_u16(in)
      [] q = "raw_counts" -> decode_raw_counts_from_u16(in)

\* decode_be_u16_from_bytes(input).and_then(|(val, rest)| Ok((decode_X_from_u16(val)?, rest)))
decode_from_bytes(q, in) ==
    LET word == decode_be_u16_from_bytes(in)
    IN  IF ~word.ok
        THEN word
        ELSE LET res == decode_from_u16(q, word.val[1])
             IN  IF res.ok THEN Ok(<<res.val, word.val[2]>>) ELSE res

(***************************************************************************)
(* Decoder specification: one input, one decoder applied to it             *)
(***************************************************************************)
\* A register word is held as the one-word sequence <<raw>>.
WordInputs == {[kind |-> "u16", val |-> <<raw>>] : raw \in U16}

ByteInputs ==
    {[kind |-> "bytes", val |-> <<>>]}
    \cup {[kind |-> "bytes", val |-> <<b>>] : b \in U8}
    \cup {[kind |-> "bytes", val |-> <<hi, lo>> \o Trailing(n)] : hi \in U8, lo \in U8, n \in 0..MaxTail}

\* Water contents around the valid range, in hundredths of a percent: up to
\* MaxBeyond hundredths below its lower and above its upper limit.
MaxBeyond == 100

PercentInputs ==
    {[kind |-> "percent", val |-> <<v>>] :
        v \in (VolumetricWaterContent_min_percent - MaxBeyond)
                ..(VolumetricWaterContent_max_percent + MaxBeyond)}

SessInit ==
    /\ proxies = <<>>
    /\ context = 0
    /\ link_slave = <<>>
    /\ exchanges = <<>>
    /\ connecting = <<>>
    /\ returned = [op |-> "none"]

\* No control loop is running and no mock proxy exists.
LoopAbsent ==
    /\ pc = "absent"
    /\ measurements = <<>>
    /\ cycle = <<>>

MockAbsent ==
    /\ mock = <<>>
    /\ calls = <<>>

DecInit ==
    /\ \/ input \in WordInputs
       \/ input \in ByteInputs
       \/ input \in PercentInputs
    /\ output = None
    /\ SessInit
    /\ LoopAbsent
    /\ MockAbsent

DecodeFromU16(q) ==
    /\ output = None
    /\ input.kind = "u16"
    /\ output' = [fn |-> "from_u16", quantity |-> q, res |-> decode_from_u16(q, input.val[1])]
    /\ UNCHANGED <<input, sessvars, loopvars, mockvars>>

DecodeFromBytes(q) ==
    /\ output = None
    /\ input.kind = "bytes"
    /\ output' = [fn |-> "from_bytes", quantity |-> q, res |-> decode_from_bytes(q, input.val)]
    /\ UNCHANGED <<input, sessvars, loopvars, mockvars>>

\* VolumetricWaterContent::from_percent(input), then is_valid and to_percent
WaterContentFromPercent ==
    /\ output = None
    /\ input.kind = "percent"
    /\ LET vwc == VolumetricWaterContent_from_percent(input.val[1])
       IN  output' = [fn |-> "from_percent", quantity |-> "water_content",
                      res |-> [valid |-> VolumetricWaterContent_is_valid(vwc),
                               percent |-> VolumetricWaterContent_to_percent(vwc)]]
    /\ UNCHANGED <<input, sessvars, loopvars, mockvars>>

\* u16::from(counts) on the RawCounts a decoder has returned
RawCountsIntoU16 ==
    /\ output.fn = "from_u16"
    /\ output.quantity = "raw_counts"
    /\ output.res.ok
    /\ output' = [fn |-> "into_u16", quantity |-> "raw_counts",
                  res |-> Ok(u16_from_RawCounts(output.res.val))]
    /\ UNCHANGED <<input, sessvars, loopvars, mockvars>>

DecNext ==
    \/ \E q \in Quantities : DecodeFromU16(q)
    \/ \E q \in Quantities : DecodeFromBytes(q)
    \/ WaterContentFromPercent
    \/ RawCountsIntoU16

DecSpec == DecInit /\ [][DecNext]_vars

(***************************************************************************)
(* Properties of the register decoders (checked under DecSpec)             *)
(***************************************************************************)
Decoded(fn, q) == output.fn = fn /\ output.quantity = q

\* C1: for every register value raw in 0..65535 temperature decoding succeeds
\* and yields raw - 10000 hundredths of a degree, between -100.00 and 555.35.
C1_TemperatureAlwaysDecodes ==
    Decoded("from_u16", "temperature") =>
        /\ output.res.ok
        /\ output.res.val = input.val[1] - 10000
        /\ output.res.val \in -10000..55535

\* The largest register value, far above the device range, decodes to 555.35.
C1_Witness ==
    /\ Decoded("from_u16", "temperature")
    /\ input.val = <<65535>>
    /\ output.res.ok
    /\ output.res.val = 55535

\* C2: water content decoding succeeds with raw hundredths of a percent for
\* raw in 0..10000 and fails with InvalidData for raw in 10001..65535.
C2_WaterContentRange ==
    Decoded("from_u16", "water_content") =>
        IF input.val[1] <= 10000
        THEN output.res.ok /\ output.res.val = input.val[1]
        ELSE ~output.res.ok /\ output.res.err = "InvalidData"

\* The last accepted value: raw = 10000 decodes to 100.00 percent.
C2_Witness ==
    /\ Decoded("from_u16", "water_content")
    /\ input.val = <<10000>>
    /\ output.res.ok
    /\ output.res.val = 10000

\* C3: permittivity decoding succeeds with raw hundredths for raw in
\* 100..65535 and fails with InvalidData for raw in 0..99.
C3_PermittivityRange ==
    Decoded("from_u16", "permittivity") =>
        IF input.val[1] >= 100
        THEN output.res.ok /\ output.res.val = input.val[1]
        ELSE ~output.res.ok /\ output.res.err = "InvalidData"

\* The first accepted value: raw = 100 decodes to the ratio 1.00.
C3_Witness ==
    /\ Decoded("from_u16", "permittivity")
    /\ input.val = <<100>>
    /\ output.res.ok
    /\ output.res.val = 100

\* C4: a byte-buffer decoder fails with InsufficientInput on fewer than 2
\* bytes; otherwise it decodes the register 256 * byte[0] + byte[1], returns
\* the input without its first 2 bytes as remainder, and fails only with the
\* range error InvalidData of water content and permittivity.
C4_ByteBufferDecoding ==
    output.fn = "from_bytes" =>
        LET bytes == input.val
            q == output.quantity
            res == output.res
        IN  IF Len(bytes) < 2
            THEN ~res.ok /\ res.err = "InsufficientInput"
            ELSE LET reg == 256 * bytes[1] + bytes[2]
                 IN  IF res.ok
                     THEN /\ res.val[2] = [i \in 1..(Len(bytes) - 2) |-> bytes[i + 2]]
                          /\ res.val[1] = IF q = "temperature" THEN reg - 10000 ELSE reg
                          /\ q = "water_content" => reg <= 10000
                          /\ q = "permittivity" => reg >= 100
                     ELSE /\ res.err = "InvalidData"
                          /\ \/ q = "water_content" /\ reg > 10000
                             \/ q = "permittivity" /\ reg < 100

\* Bytes 0x17 0x70 followed by one more byte decode to -40.00 degrees and
\* leave that byte as remainder.
C4_Witness ==
    /\ Decoded("from_bytes", "temperature")
    /\ Len(input.val) = 3
    /\ input.val[1] = 23 /\ input.val[2] = 112
    /\ output.res.ok
    /\ output.res.val = <<-4000, <<input.val[3]>>>>

\* C17: a water content is valid exactly when it lies between 0 and 100
\* percent, both included: every whole percent 0..100 is valid and reads back
\* as it was given, -0.5 percent and 100.01 percent are invalid.
C17_WaterContentValidity ==
    Decoded("from_percent", "water_content") =>
        LET v == input.val[1]
        IN  /\ output.res.valid <=> (v >= 0 /\ v <= 10000)
            /\ (v \in 0..10000 /\ v % 100 = 0) =>
                   (output.res.valid /\ output.res.percent = v)
            /\ v \in {-50, 10001} => ~output.res.valid

\* -0.5 percent is found invalid.
C17_Witness ==
    /\ Decoded("from_percent", "water_content")
    /\ input.val = <<-50>>
    /\ ~output.res.valid
    /\ output.res.percent = -50

\* C18: for every raw in 0..65535 raw-counts decoding succeeds with counts
\* equal to raw, and converting the counts back to u16 returns raw.
C18_RawCountsIdentity ==
    /\ Decoded("from_u16", "raw_counts") =>
           (output.res.ok /\ output.res.val = input.val[1])
    /\ Decoded("into_u16", "raw_counts") =>
           (output.res.ok /\ output.res.val = input.val[1] /\ output.res.val \in 0..65535)

\* The largest register value came back from the counts it was decoded to.
C18_Witness ==
    /\ Decoded("into_u16", "raw_counts")
    /\ input.val = <<65535>>
    /\ output.res.val = 65535

(***************************************************************************)
(* Bounds of the session model                                             *)
(***************************************************************************)
MaxSlave == 2       \* proxies are bound to the slaves 1..MaxSlave
MaxProxies == 2     \* proxies sharing the session
MaxLinks == 2       \* links the connection factory hands out
MaxInflight == 1    \* request futures in flight at once
MaxTimeout == 1     \* timeouts, in clock ticks
MaxRegs == 2        \* registers in one response

SlaveIds == 1..MaxSlave
Timeouts == 1..MaxTimeout

\* Register values the device answers with: the limits of the valid ranges.
RegSamples == {99, 10000, 10001}

\* Responses of 0..MaxRegs registers.
Responses == {[i \in 1..n |-> r] : r \in RegSamples, n \in 0..MaxRegs}

\* Error kinds of the request/response primitive and of the connection factory.
TransportErrors == {"BrokenPipe"}
ConnectErrors == {"NotFound"}

Remove(seq, i) == [j \in 1..(Len(seq) - 1) |-> IF j < i THEN seq[j] ELSE seq[j + 1]]

(***************************************************************************)
(* Shared session (tokio_modbus::client::util::SharedContext)              *)
(***************************************************************************)
Disconnected == 0

\* SharedContext::share_context: the link held, if any.
share_context == context

\* SharedContext::reconnect_context drops the link held before it calls the
\* connection factory.
reconnect_context == Disconnected

\* The link a succeeded connection factory returns: a new one, whose client
\* context addresses the broadcast slave (connect_path).
BROADCAST_SLAVE == 253

new_context == Append(link_slave, BROADCAST_SLAVE)

(***************************************************************************)
(* Slave proxy, src/modbus/mod.rs                                          *)
(***************************************************************************)
BROADCAST_REG_ADDR == 4
REG_COUNT == 1

reg_start(q) ==
    CASE q = "temperature" -> 0
      [] q = "water_content" -> 1
      [] q = "permittivity" -> 2
      [] q = "raw_counts" -> 3

read_holding_registers(slave, addr, cnt) ==
    [fn |-> "read_holding_registers", slave |-> slave, addr |-> addr, cnt |-> cnt]

\* Variant: the register address and the value written in each other's place.
write_single_register_swapped(slave, addr, val) ==
    [fn |-> "write_single_register", slave |-> slave, addr |-> val, val |-> addr]

write_single_register(slave, addr, val) ==
    [fn |-> "write_single_register", slave |-> slave, addr |-> addr, val |-> val]

\* impl From<TemperatureRaw> for Temperature
TemperatureRaw_into(raw) == raw - TemperatureOffset

\* Variant: the first register taken from a response of any length.
decode_rsp_first(q, rsp) ==
    IF Len(rsp) >= 1
    THEN LET raw == rsp[1]
         IN  CASE q = "temperature" -> Ok(TemperatureRaw_into(raw))
               [] q = "water_content" ->
                    IF VolumetricWaterContent_is_valid(raw) THEN Ok(raw) ELSE Err("InvalidData")
               [] q = "permittivity" ->
                    IF RelativePermittivity_is_valid(raw) THEN Ok(raw) ELSE Err("InvalidData")
               [] q = "raw_counts" -> Ok(raw)
    ELSE Err("InvalidData")

\* The and_then closures of read_temperature .. read_raw_counts.
decode_rsp(q, rsp) ==
    IF Len(rsp) = 1
    THEN LET raw == rsp[1]
         IN  CASE q = "temperature" -> Ok(TemperatureRaw_into(raw))
               [] q = "water_content" ->
                    IF VolumetricWaterContent_is_valid(raw) THEN Ok(raw) ELSE Err("InvalidData")
               [] q = "permittivity" ->
                    IF RelativePermittivity_is_valid(raw) THEN Ok(raw) ELSE Err("InvalidData")
               [] q = "raw_counts" -> Ok(raw)
    ELSE Err("InvalidData")

\* .timeout(timeout).map_err(..).and_then(..): what the read future resolves to
\* for an outcome io of the exchange.
read_result(q, io) ==
    CASE io.kind = "elapsed" -> Err("TimedOut")
      [] io.kind = "error" -> Err(io.err)
      [] io.kind = "response" -> decode_rsp(q, io.rsp)

\* Variant: the newest link handed out although the session dropped it.
shared_context_unchecked(p) ==
    IF Len(link_slave) > 0 THEN Ok(Len(link_slave)) ELSE Err("NotConnected")

\* Variant: the proxy keeps to the first link of the session.
shared_context_first(p) ==
    IF share_context # Disconnected THEN Ok(1) ELSE Err("NotConnected")

\* SlaveProxy::shared_context
shared_context(p) ==
    IF share_context # Disconnected THEN Ok(share_context) ELSE Err("NotConnected")

\* A caller makes a call that acquires the link only while fewer than cap
\* requests are in flight.
Accepts(p, cap) == shared_context(p).ok => Len(exchanges) < cap

\* Variant: the request future left without a timer.
Timeout_never(timeout) == 0

\* .timeout(timeout): the timer armed for the request, in ticks from now.
Timeout_new(timeout) == timeout

\* Variant: the link left addressed as it was.
set_slave_skipped(ls, l, slave) == ls

\* Context::set_slave on the borrowed link
set_slave(ls, l, slave) == [ls EXCEPT ![l] = slave]

\* Variant: the error of the connection factory swallowed.
reconnect_result_swallowed(p, res) == Ok(p)

\* The then closure of SlaveProxy::reconnect
reconnect_result(p, res) == IF res.ok THEN Ok(p) ELSE [ok |-> FALSE, err |-> res.err, proxy |-> p]

\* A proxy is moved into its reconnect future until that future resolves.
Moved(p) == \E i \in DOMAIN connecting : connecting[i].proxy = p

Usable(p) == p \in DOMAIN proxies /\ ~Moved(p)

\* Calls that find no link while a reconnect is in flight are noted on it.
NoteMissed == [i \in DOMAIN connecting |-> [connecting[i] EXCEPT !.missed = TRUE]]

\* Whether the future a call returns holds the RefCell guard the call took.
\* The guard of a read is the local `context` of the match arm, that of a
\* broadcast a temporary of the call expression, and reconnect moves self
\* into its closure after reconnect_shared_context(&self.shared_context) has
\* returned: each future outlives what its call borrowed, so it holds none.
\* Variant: the guard of a read moved into the future of the read.
future_holds_read_guard(call) == call = "read"

future_holds(call) == FALSE

\* Guards alive between two steps of the single thread.
SessionGuards == {i \in DOMAIN connecting : connecting[i].guard}
LinkGuards(l) == {i \in DOMAIN exchanges : exchanges[i].link = l /\ exchanges[i].guard}

\* RefCell::borrow and RefCell::borrow_mut panic when a conflicting guard is
\* alive: shared_context() borrows the session, a read or a broadcast then
\* borrows the link mutably.
BorrowFails(p) ==
    \/ SessionGuards # {}
    \/ shared_context(p).ok /\ LinkGuards(shared_context(p).val) # {}

\* The call panics: "already borrowed".
BorrowPanic(op) ==
    /\ returned' = [op |-> op, io |-> [kind |-> "panic"], res |-> Err("BorrowMutError")]
    /\ UNCHANGED <<proxies, context, link_slave, exchanges, connecting, decvars, mockvars>>

SlaveProxy_new(slave) ==
    /\ Len(proxies) < MaxProxies
    /\ proxies' = Append(proxies, slave)
    /\ UNCHANGED <<context, link_slave, exchanges, connecting, returned, decvars, mockvars>>

SlaveProxy_reconnect(p) ==
    /\ Usable(p)
    /\ IF BorrowFails(p)
       THEN BorrowPanic("reconnect")
       ELSE /\ connecting' = Append(connecting,
                   [proxy |-> p, replaced |-> context, missed |-> FALSE,
                    guard |-> future_holds("reconnect")])
            /\ context' = reconnect_context
            /\ UNCHANGED <<proxies, link_slave, exchanges, returned, decvars, mockvars>>

ReconnectDone(i, res) ==
    /\ i \in DOMAIN connecting
    /\ connecting' = Remove(connecting, i)
    /\ returned' = [proxy |-> connecting[i].proxy, op |-> "reconnect",
                    res |-> reconnect_result(connecting[i].proxy, res),
                    replaced |-> connecting[i].replaced, missed |-> connecting[i].missed]
    /\ IF res.ok
       THEN /\ Len(link_slave) < MaxLinks
            /\ link_slave' = new_context
            /\ context' = Len(link_slave')
       ELSE UNCHANGED <<context, link_slave>>
    /\ UNCHANGED <<proxies, exchanges, decvars, mockvars>>

SlaveProxy_read(p, q, timeout) ==
    /\ Usable(p)
    /\ LET acq == shared_context(p)
       IN  IF BorrowFails(p) THEN BorrowPanic(q)
           ELSE IF acq.ok
           THEN LET l == acq.val
                    ls == set_slave(link_slave, l, proxies[p])
                IN  /\ link_slave' = ls
                    /\ exchanges' = Append(exchanges,
                          [proxy |-> p, op |-> q, link |-> l,
                           req |-> read_holding_registers(ls[l], reg_start(q), REG_COUNT),
                           timeout |-> timeout, timer |-> Timeout_new(timeout),
                           elapsed |-> 0, guard |-> future_holds("read")])
                    /\ UNCHANGED <<proxies, context, connecting, returned, decvars, mockvars>>
           ELSE /\ returned' = [op |-> q, io |-> [kind |-> "none"], res |-> acq]
                /\ connecting' = NoteMissed
                /\ UNCHANGED <<proxies, context, link_slave, exchanges, decvars, mockvars>>

SlaveProxy_broadcast_slave(p) ==
    /\ Usable(p)
    /\ LET acq == shared_context(p)
       IN  IF BorrowFails(p) THEN BorrowPanic("broadcast")
           ELSE IF acq.ok
           THEN LET l == acq.val
                    ls == set_slave(link_slave, l, BROADCAST_SLAVE)
                IN  /\ link_slave' = ls
                    /\ exchanges' = Append(exchanges,
                          [proxy |-> p, op |-> "broadcast", link |-> l,
                           req |-> write_single_register(ls[l], BROADCAST_REG_ADDR, proxies[p]),
                           timeout |-> 0, timer |-> 0, elapsed |-> 0,
                           guard |-> future_holds("broadcast")])
                    /\ UNCHANGED <<proxies, context, connecting, returned, decvars, mockvars>>
           ELSE /\ returned' = [op |-> "broadcast", io |-> [kind |-> "none"], res |-> acq]
                /\ connecting' = NoteMissed
                /\ UNCHANGED <<proxies, context, link_slave, exchanges, decvars, mockvars>>

\* Variant: a failed read drops the link, as the first half of a reconnect.
Resolve_dropping(i, io) ==
    /\ exchanges' = Remove(exchanges, i)
    /\ returned' = [op |-> exchanges[i].op, io |-> io,
                    res |-> read_result(exchanges[i].op, io)]
    /\ context' = IF read_result(exchanges[i].op, io).ok THEN context ELSE reconnect_context
    /\ UNCHANGED <<proxies, link_slave, connecting, decvars, mockvars>>

\* The read future of exchange i resolves with the outcome io.
Resolve(i, io) ==
    /\ exchanges' = Remove(exchanges, i)
    /\ returned' = [op |-> exchanges[i].op, io |-> io,
                    res |-> read_result(exchanges[i].op, io)]
    /\ UNCHANGED <<proxies, context, link_slave, connecting, decvars, mockvars>>

Respond(i, rsp) ==
    /\ i \in DOMAIN exchanges
    /\ exchanges[i].op \in Quantities
    /\ Resolve(i, [kind |-> "response", rsp |-> rsp])

TransportError(i, e) ==
    /\ i \in DOMAIN exchanges
    /\ exchanges[i].op \in Quantities
    /\ Resolve(i, [kind |-> "error", err |-> e])

Elapse(i) ==
    /\ i \in DOMAIN exchanges
    /\ exchanges[i].op \in Quantities
    /\ exchanges[i].timer > 0
    /\ exchanges[i].elapsed >= exchanges[i].timer
    /\ Resolve(i, [kind |-> "elapsed"])

\* The write future of a broadcast resolves.
WriteDone(i, res) ==
    /\ i \in DOMAIN exchanges
    /\ exchanges[i].op = "broadcast"
    /\ exchanges' = Remove(exchanges, i)
    /\ returned' = [op |-> "broadcast", io |-> [kind |-> "write"], res |-> res]
    /\ UNCHANGED <<proxies, context, link_slave, connecting, decvars, mockvars>>

\* One tick of the clock. The reactor resolves a future whose timer has
\* expired before the clock moves on.
Tick ==
    /\ \E i \in DOMAIN exchanges : exchanges[i].op \in Quantities
    /\ \A i \in DOMAIN exchanges :
           /\ exchanges[i].timer > 0 => exchanges[i].elapsed < exchanges[i].timer
           /\ exchanges[i].elapsed <= MaxTimeout
    /\ exchanges' = [i \in DOMAIN exchanges |->
                        IF exchanges[i].op \in Quantities
                        THEN [exchanges[i] EXCEPT !.elapsed = @ + 1]
                        ELSE exchanges[i]]
    /\ UNCHANGED <<proxies, context, link_slave, connecting, returned, decvars, mockvars>>

Init ==
    /\ input = [kind |-> "bytes", val |-> <<>>]
    /\ output = None
    /\ SessInit
    /\ LoopAbsent
    /\ MockAbsent

Next ==
    \/ \E slave \in SlaveIds : SlaveProxy_new(slave) /\ UNCHANGED loopvars
    \/ \E p \in 1..MaxProxies : SlaveProxy_reconnect(p) /\ UNCHANGED loopvars
    \/ \E i \in 1..MaxProxies : ReconnectDone(i, Ok(<<>>)) /\ UNCHANGED loopvars
    \/ \E i \in 1..MaxProxies, e \in ConnectErrors :
          ReconnectDone(i, Err(e)) /\ UNCHANGED loopvars
    \/ \E p \in 1..MaxProxies, q \in Quantities, t \in Timeouts :
          Accepts(p, MaxInflight) /\ SlaveProxy_read(p, q, t) /\ UNCHANGED loopvars
    \/ \E p \in 1..MaxProxies :
          Accepts(p, MaxInflight) /\ SlaveProxy_broadcast_slave(p) /\ UNCHANGED loopvars
    \/ \E i \in 1..MaxInflight, rsp \in Responses : Respond(i, rsp) /\ UNCHANGED loopvars
    \/ \E i \in 1..MaxInflight, e \in TransportErrors :
          TransportError(i, e) /\ UNCHANGED loopvars
    \/ \E i \in 1..MaxInflight : Elapse(i) /\ UNCHANGED loopvars
    \/ \E i \in 1..MaxInflight, e \in TransportErrors :
          WriteDone(i, Err(e)) /\ UNCHANGED loopvars
    \/ \E i \in 1..MaxInflight : WriteDone(i, Ok(<<>>)) /\ UNCHANGED loopvars
    \/ Tick /\ UNCHANGED loopvars

Spec == Init /\ [][Next]_vars

(***************************************************************************)
(* Properties of the slave proxy and the shared session (checked under     *)
(* Spec)                                                                   *)
(***************************************************************************)
\* A step that puts a request on the transport, and the request it puts.
Issued == Len(exchanges') > Len(exchanges)
Newest == exchanges'[Len(exchanges')]

\* A step that invokes the connection factory.
FactoryInvoked == Len(connecting') > Len(connecting)

\* A step in which a call returns at once, without an exchange: no other
\* step leaves the proxies, the session, the transport and the number of
\* reconnects in flight as they are.
ReturnsAtOnce ==
    /\ UNCHANGED <<proxies, context, link_slave, exchanges>>
    /\ Len(connecting') = Len(connecting)
    /\ returned'.op \in Quantities \cup {"broadcast"}
    /\ returned'.io.kind = "none"

\* A step in which a reconnect future resolves.
ReconnectResolves == Len(connecting') < Len(connecting)

\* C5: while the session is disconnected a read returns NotConnected at once,
\* puts no request on the transport and does not invoke the connection factory.
C5_DisconnectedReadFails ==
    [][context = Disconnected =>
          /\ ~Issued
          /\ (ReturnsAtOnce /\ returned'.op \in Quantities) =>
                /\ ~returned'.res.ok
                /\ returned'.res.err = "NotConnected"
                /\ exchanges' = exchanges
                /\ ~FactoryInvoked
                /\ context' = Disconnected]_vars

\* A read on a session that lost its link returned NotConnected.
C5_Witness ==
    /\ returned.op \in Quantities
    /\ returned.io.kind = "none"
    /\ returned.res = Err("NotConnected")
    /\ context = Disconnected
    /\ Len(link_slave) >= 1
    /\ exchanges = <<>>

AcquiresNewestLink ==
    Issued =>
        /\ context # Disconnected
        /\ Newest.link = context
        /\ context = Len(link_slave)
        /\ \A i \in DOMAIN connecting : Newest.link # connecting[i].replaced

\* A succeeded reconnect installs a link that was never held before.
InstallsNewLink ==
    (ReconnectResolves /\ returned'.res.ok) =>
        /\ Len(link_slave') = Len(link_slave) + 1
        /\ context' = Len(link_slave')
        /\ context' # returned'.replaced

C8_ReadBoundedByTimeout ==
    /\ \A i \in DOMAIN exchanges :
          exchanges[i].op \in Quantities => exchanges[i].elapsed <= exchanges[i].timeout
    /\ (returned.op \in Quantities /\ returned.io.kind = "elapsed") =>
          returned.res = [ok |-> FALSE, err |-> "TimedOut"]
    /\ (returned.op \in Quantities /\ returned.io.kind = "error") =>
          returned.res = [ok |-> FALSE, err |-> returned.io.err]
    /\ (returned.op \in Quantities /\ returned.io.kind = "response") =>
          (returned.res.ok \/ returned.res.err = "InvalidData")

\* A read timed out.
C8_Witness ==
    /\ returned.op \in Quantities
    /\ returned.io.kind = "elapsed"
    /\ returned.res = [ok |-> FALSE, err |-> "TimedOut"]

\* C9: a response without exactly one register resolves a read to InvalidData;
\* a response of one register is decoded with the decoder of the quantity.
C9_ExactlyOneRegister ==
    (returned.op \in Quantities /\ returned.io.kind = "response") =>
        LET rsp == returned.io.rsp
            res == returned.res
        IN  IF Len(rsp) # 1
            THEN ~res.ok /\ res.err = "InvalidData"
            ELSE CASE returned.op = "temperature" -> res.ok /\ res.val = rsp[1] - 10000
                   [] returned.op = "water_content" ->
                        IF rsp[1] <= 10000
                        THEN res.ok /\ res.val = rsp[1]
                        ELSE ~res.ok /\ res.err = "InvalidData"
                   [] returned.op = "permittivity" ->
                        IF rsp[1] >= 100
                        THEN res.ok /\ res.val = rsp[1]
                        ELSE ~res.ok /\ res.err = "InvalidData"
                   [] returned.op = "raw_counts" -> res.ok /\ res.val = rsp[1]

\* A response of two valid registers was refused.
C9_Witness ==
    /\ returned.op = "water_content"
    /\ returned.io.kind = "response"
    /\ returned.io.rsp = <<10000, 10000>>
    /\ returned.res = [ok |-> FALSE, err |-> "InvalidData"]

\* C10: every read request in flight is addressed to the slave of the proxy
\* that issued it and reads one holding register at the address of its
\* quantity.
C10_RequestAddressedToOwnSlave ==
    \A i \in DOMAIN exchanges :
        exchanges[i].op \in Quantities =>
            LET e == exchanges[i]
            IN  /\ e.req.fn = "read_holding_registers"
                /\ e.req.slave = proxies[e.proxy]
                /\ e.req.slave # 253
                /\ e.req.cnt = 1
                /\ e.req.addr = CASE e.op = "temperature" -> 0
                                  [] e.op = "water_content" -> 1
                                  [] e.op = "permittivity" -> 2
                                  [] e.op = "raw_counts" -> 3

\* Proxy 2 reads on the link of a reconnect after a read of proxy 1, which
\* has another slave, returned.
C10_Witness ==
    /\ Len(proxies) = 2
    /\ proxies[1] # proxies[2]
    /\ returned.op \in Quantities
    /\ \E i \in DOMAIN exchanges :
          /\ exchanges[i].proxy = 2
          /\ exchanges[i].link = 2
          /\ exchanges[i].op = "raw_counts"
          /\ exchanges[i].req.slave = proxies[2]

\* The steps of a read call: it returns at once, it issues its request, or
\* its future resolves.
ReadReturnsAtOnce == ReturnsAtOnce /\ returned'.op \in Quantities
ReadIssues == Issued /\ Newest.op \in Quantities
ReadResolves ==
    /\ Len(exchanges') < Len(exchanges)
    /\ returned'.op \in Quantities
    /\ returned'.io.kind # "none"

ReadErrors == {"NotConnected", "TimedOut", "InvalidData"} \cup TransportErrors

\* C12: a read call puts at most one request on the transport, none when its
\* future resolves; it never invokes the connection factory; when it fails
\* (NotConnected, TimedOut, InvalidData or a transport error) the session
\* holds the link it held, or none as before, no link changes, and the error
\* is what the caller gets.
C12_NoRetryNoReconnect ==
    [][/\ ReadIssues =>
             /\ Len(exchanges') = Len(exchanges) + 1
             /\ Len(connecting') = Len(connecting)
             /\ context' = context
             /\ Len(link_slave') = Len(link_slave)
       /\ ReadResolves =>
             /\ Len(exchanges') = Len(exchanges) - 1
             /\ Len(connecting') = Len(connecting)
             /\ context' = context
             /\ link_slave' = link_slave
             /\ ~returned'.res.ok => returned'.res.err \in ReadErrors \ {"NotConnected"}
       /\ ReadReturnsAtOnce =>
             /\ exchanges' = exchanges
             /\ Len(connecting') = Len(connecting)
             /\ context' = context
             /\ link_slave' = link_slave
             /\ returned'.res = Err("NotConnected")]_vars

\* A read failed with a transport error and the session still holds the link
\* the request went out on: nothing was retried, no reconnect is under way.
C12_Witness ==
    /\ returned.op \in Quantities
    /\ returned.io.kind = "error"
    /\ returned.res = Err("BrokenPipe")
    /\ context = 1
    /\ Len(link_slave) = 1
    /\ exchanges = <<>>
    /\ connecting = <<>>

\* C16: broadcast_slave on a connected session sets the link to the broadcast
\* slave 0xFD and issues one write of a single register, at address 4, of the
\* slave address of the proxy, and no more when that write resolves; on a
\* disconnected session, and only there, it returns at once, with
\* NotConnected and without a write.
C16_BroadcastWritesOwnAddress ==
    [][/\ (Issued /\ Newest.op = "broadcast") =>
             /\ context # Disconnected
             /\ Len(exchanges') = Len(exchanges) + 1
             /\ \A i \in DOMAIN exchanges : exchanges'[i] = exchanges[i]
             /\ Newest.link = context
             /\ link_slave'[Newest.link] = 253
             /\ Newest.req = [fn |-> "write_single_register", slave |-> 253,
                              addr |-> 4, val |-> proxies[Newest.proxy]]
       /\ (ReturnsAtOnce /\ returned'.op = "broadcast") =>
             /\ context = Disconnected
             /\ returned'.res = Err("NotConnected")
             /\ exchanges' = exchanges
             /\ link_slave' = link_slave
       /\ (Len(exchanges') < Len(exchanges) /\ returned'.op = "broadcast") =>
             /\ Len(exchanges') = Len(exchanges) - 1
             /\ link_slave' = link_slave]_vars

\* After a read has returned a value, the proxy of slave 2 broadcasts: its
\* write of the value 2 is in flight, addressed to 0xFD.
C16_Witness ==
    /\ returned.op \in Quantities
    /\ returned.res.ok
    /\ \E i \in DOMAIN exchanges :
          /\ exchanges[i].op = "broadcast"
          /\ proxies[exchanges[i].proxy] = 2
          /\ exchanges[i].req.slave = 253
          /\ exchanges[i].req.addr = 4
          /\ exchanges[i].req.val = 2

(***************************************************************************)
(* Two proxies on one link: calls made while an exchange is in flight      *)
(***************************************************************************)
MaxShared == 2      \* request futures in flight at once on the shared link

\* Two proxies for two slaves share the session, which holds the link of a
\* succeeded reconnect.
SharedInit ==
    /\ input = [kind |-> "bytes", val |-> <<>>]
    /\ output = None
    /\ proxies = <<1, 2>>
    /\ link_slave = <<BROADCAST_SLAVE>>
    /\ context = 1
    /\ exchanges = <<>>
    /\ connecting = <<>>
    /\ returned = [op |-> "none"]
    /\ LoopAbsent
    /\ MockAbsent

SharedNext ==
    \/ \E p \in DOMAIN proxies, q \in Quantities, t \in Timeouts :
          Accepts(p, MaxShared) /\ SlaveProxy_read(p, q, t) /\ UNCHANGED loopvars
    \/ \E p \in DOMAIN proxies :
          Accepts(p, MaxShared) /\ SlaveProxy_broadcast_slave(p) /\ UNCHANGED loopvars
    \/ \E i \in 1..MaxShared, rsp \in Responses : Respond(i, rsp) /\ UNCHANGED loopvars
    \/ \E i \in 1..MaxShared, e \in TransportErrors :
          TransportError(i, e) /\ UNCHANGED loopvars
    \/ \E i \in 1..MaxShared : Elapse(i) /\ UNCHANGED loopvars
    \/ \E i \in 1..MaxShared, e \in TransportErrors :
          WriteDone(i, Err(e)) /\ UNCHANGED loopvars
    \/ \E i \in 1..MaxShared : WriteDone(i, Ok(<<>>)) /\ UNCHANGED loopvars
    \/ Tick /\ UNCHANGED loopvars

SharedSpec == SharedInit /\ [][SharedNext]_vars

\* C11 (as stated): while an exchange is in flight no call acquires the link,
\* changes its target address or issues a request on it.
C11_AsStated ==
    [][exchanges # <<>> => (~Issued /\ link_slave' = link_slave)]_vars

\* C11 (amended): the link is borrowed only while a call sets the target
\* address and issues its request: the address of the link changes in no other
\* step, the request carries the address the same call has set (the slave of
\* the proxy, or the broadcast slave), and the call leaves the requests in
\* flight as they are; a call made while an exchange is in flight acquires the
\* link like any other.
C11_BorrowedWhileIssuing ==
    [][/\ Issued =>
             /\ Len(exchanges') = Len(exchanges) + 1
             /\ \A i \in DOMAIN exchanges : exchanges'[i] = exchanges[i]
             /\ Newest.link = context
             /\ link_slave'[Newest.link] = Newest.req.slave
             /\ Newest.req.slave = IF Newest.op = "broadcast" THEN 253 ELSE proxies[Newest.proxy]
             /\ \A l \in DOMAIN link_slave : l # Newest.link => link_slave'[l] = link_slave[l]
       /\ ~Issued => link_slave' = link_slave]_vars

\* The requests of both proxies are in flight on the one link, each addressed
\* to the slave of its proxy; the link is left addressed to the second.
C11_Witness ==
    /\ Len(exchanges) = 2
    /\ exchanges[1].proxy = 1 /\ exchanges[1].req.slave = 1 /\ exchanges[1].link = 1
    /\ exchanges[2].proxy = 2 /\ exchanges[2].req.slave = 2 /\ exchanges[2].link = 1
    /\ link_slave[1] = 2

(***************************************************************************)
(* Mock proxy, src/mock.rs                                                 *)
(***************************************************************************)
MaxDelay == 1       \* delays and timeouts of the mock, in clock ticks
MaxCalls == 1       \* delayed read futures of the mock in flight

\* Option<T>
Some(v) == [some |-> TRUE, val |-> v]
Nothing == [some |-> FALSE]

\* std::io::Error: its kind and its message, in parts.
Error_new(kind, msg) == [kind |-> kind, msg |-> msg]

\* The errors a test injects.
InjectedErrors == {Error_new("BrokenPipe", <<"injected">>)}

DefaultTemperature == 2000
DefaultWaterContent == 3000

\* Proxy::default
Proxy_default ==
    [temperature |-> DefaultTemperature,
     water_content |-> DefaultWaterContent,
     permittivity |-> RelativePermittivity_min_ratio,
     raw_counts |-> 0,
     delay |-> 0,
     next_error |-> Nothing]

\* The values a test configures: the default of the quantity and one more.
MockValues(q) ==
    CASE q = "temperature" -> {DefaultTemperature, -500}
      [] q = "water_content" -> {DefaultWaterContent, 0}
      [] q = "permittivity" -> {RelativePermittivity_min_ratio, 8000}
      [] q = "raw_counts" -> {0, 65535}

MockTimeouts == {Nothing} \cup {Some(t) : t \in 0..MaxDelay}

\* The outcome of the future delay_value builds, for the result fixed at the
\* call: Delay.then(result).map_err(Other).timeout(timeout).map_err(..). The
\* delayed result is polled before the timer of the timeout.
delay_value_outcome(result, delay, timeout) ==
    IF delay <= timeout
    THEN IF result.ok
         THEN result
         ELSE Err(Error_new("Other", <<"reading value failed">> \o result.err.msg))
    ELSE Err(Error_new("TimedOut", <<"reading value timed out">>))

\* The tick at which that future resolves.
delay_value_due(delay, timeout) == IF delay <= timeout THEN delay ELSE timeout

MockInit ==
    /\ input = [kind |-> "bytes", val |-> <<>>]
    /\ output = None
    /\ SessInit
    /\ LoopAbsent
    /\ mock = Proxy_default
    /\ calls = <<>>

Driver_set_delay(delay) ==
    /\ mock' = [mock EXCEPT !.delay = delay]
    /\ UNCHANGED <<calls, decvars, sessvars, loopvars>>

Driver_set_next_error(next_error) ==
    /\ mock' = [mock EXCEPT !.next_error = next_error]
    /\ UNCHANGED <<calls, decvars, sessvars, loopvars>>

\* Driver::set_temperature .. Driver::set_raw_counts
Driver_set_value(q, v) ==
    /\ mock' = [mock EXCEPT ![q] = v]
    /\ UNCHANGED <<calls, decvars, sessvars, loopvars>>

\* Proxy::read_temperature .. Proxy::read_raw_counts. What the call found is
\* kept with its result: the timeout given, the delay and the error
\* configured, and the value configured.
Proxy_read(q, timeout) ==
    LET found == [timeout |-> timeout, delay |-> mock.delay,
                  next_error |-> mock.next_error, value |-> mock[q]]
    IN  IF timeout.some
        THEN LET next_error == mock.next_error
                 result == IF next_error.some THEN Err(next_error.val) ELSE Ok(mock[q])
             IN  /\ Len(calls) < MaxCalls
                 /\ mock' = [mock EXCEPT !.next_error = Nothing]
                 /\ calls' = Append(calls, [op |-> q, found |-> found, result |-> result,
                                            elapsed |-> 0])
                 /\ UNCHANGED <<decvars, sessvars, loopvars>>
        ELSE /\ returned' = [op |-> "mock", quantity |-> q, found |-> found, waited |-> 0,
                             res |-> Ok(mock[q])]
             /\ UNCHANGED <<mock, calls, decvars, proxies, context, link_slave, exchanges,
                            connecting, loopvars>>

\* The future of call i resolves.
MockResolve(i) ==
    /\ i \in DOMAIN calls
    /\ LET c == calls[i]
       IN  /\ c.elapsed >= delay_value_due(c.found.delay, c.found.timeout.val)
           /\ returned' = [op |-> "mock", quantity |-> c.op, found |-> c.found,
                           waited |-> c.elapsed,
                           res |-> delay_value_outcome(c.result, c.found.delay,
                                                       c.found.timeout.val)]
    /\ calls' = Remove(calls, i)
    /\ UNCHANGED <<mock, decvars, proxies, context, link_slave, exchanges, connecting, loopvars>>

\* One tick of the clock; the reactor resolves a future that is due before
\* the clock moves on.
MockTick ==
    /\ calls # <<>>
    /\ \A i \in DOMAIN calls :
          calls[i].elapsed < delay_value_due(calls[i].found.delay, calls[i].found.timeout.val)
    /\ calls' = [i \in DOMAIN calls |-> [calls[i] EXCEPT !.elapsed = @ + 1]]
    /\ UNCHANGED <<mock, decvars, sessvars, loopvars>>

MockNext ==
    \/ \E d \in 0..MaxDelay : Driver_set_delay(d)
    \/ \E e \in InjectedErrors : Driver_set_next_error(Some(e))
    \/ Driver_set_next_error(Nothing)
    \/ \E q \in Quantities : \E v \in MockValues(q) : Driver_set_value(q, v)
    \/ \E q \in Quantities, t \in MockTimeouts : Proxy_read(q, t)
    \/ \E i \in 1..MaxCalls : MockResolve(i)
    \/ MockTick

MockSpec == MockInit /\ [][MockNext]_vars

(***************************************************************************)
(* Properties of the mock proxy (checked under MockSpec)                   *)
(***************************************************************************)
\* C13: a read call that finds an injected error e configured, whatever its
\* quantity and whether its timeout is a duration or none, returns e; a read
\* call that finds none configured, and is not cut short by its timeout,
\* returns the configured value.
C13_AsStated ==
    returned.op = "mock" =>
        LET found == returned.found
        IN  /\ found.next_error.some => returned.res = Err(found.next_error.val)
            /\ (~found.next_error.some
                  /\ (found.timeout.some => found.delay <= found.timeout.val)) =>
                  returned.res = Ok(found.value)

\* C14: a mock read returns a value, the one configured, only when it has
\* waited for the configured delay; given a timeout shorter than the delay it
\* returns a TimedOut error; given a timeout that is not, and no injected
\* error, it returns the configured value.
C14_AsStated ==
    returned.op = "mock" =>
        LET found == returned.found
        IN  /\ returned.res.ok =>
                  /\ returned.res.val = found.value
                  /\ returned.waited >= found.delay
            /\ (found.timeout.some /\ found.timeout.val < found.delay) =>
                  /\ ~returned.res.ok
                  /\ returned.res.err.kind = "TimedOut"
            /\ (found.timeout.some /\ found.delay <= found.timeout.val
                  /\ ~found.next_error.some) =>
                  returned.res = Ok(found.value)

(***************************************************************************)
(* Control loop, examples/modbus-rtu.rs                                    *)
(***************************************************************************)
\* Slave::min_device()
SlaveMinDevice == 1

\* SlaveConfig.timeout, in clock ticks of 500 ms
SlaveConfigTimeout == 1

\* The proxy of the control loop.
LoopProxy == 1

\* The asynchronous chain of measurements of one cycle.
Chain == <<"temperature", "water_content", "permittivity">>

\* ControlLoop::new. A stored measurement is its value; its time stamp, the
\* wall clock at the time of storing, is left out.
LoopInit ==
    /\ input = [kind |-> "bytes", val |-> <<>>]
    /\ output = None
    /\ proxies = <<SlaveMinDevice>>
    /\ context = Disconnected
    /\ link_slave = <<>>
    /\ exchanges = <<>>
    /\ connecting = <<>>
    /\ returned = [op |-> "none"]
    /\ pc = "new"
    /\ measurements = [q \in {Chain[k] : k \in DOMAIN Chain} |-> Nothing]
    /\ cycle = <<>>
    /\ MockAbsent

\* main: core.run(ctrl_loop.reconnect())
ControlLoop_connect ==
    /\ pc = "new"
    /\ SlaveProxy_reconnect(LoopProxy)
    /\ pc' = "connecting"
    /\ UNCHANGED <<measurements, cycle>>

\* main: .map_err(|(err, _)| err).unwrap() on the result of the first connect
ControlLoop_connected(res) ==
    /\ pc = "connecting"
    /\ ReconnectDone(1, res)
    /\ pc' = IF res.ok THEN "idle" ELSE "panicked"
    /\ UNCHANGED <<measurements, cycle>>

\* An event of the cycle interval starts the chain of a new cycle.
ControlLoop_interval ==
    /\ pc = "idle"
    /\ pc' = "measure"
    /\ cycle' = <<>>
    /\ UNCHANGED <<measurements, decvars, sessvars, mockvars>>

\* A timer error of the interval ends the fold, and main unwraps its error.
ControlLoop_timer_error ==
    /\ pc = "idle"
    /\ pc' = "aborted"
    /\ UNCHANGED <<measurements, cycle, decvars, sessvars, mockvars>>

\* ControlLoop::measure_temperature .. measure_permittivity: the read call
ControlLoop_measure ==
    /\ pc = "measure"
    /\ LET q == Chain[Len(cycle) + 1]
       IN  /\ SlaveProxy_read(LoopProxy, q, SlaveConfigTimeout)
           /\ IF shared_context(LoopProxy).ok
              THEN /\ pc' = "await"
                   /\ cycle' = cycle
              ELSE /\ pc' = "failed"
                   /\ cycle' = Append(cycle, <<q, "err">>)
    /\ UNCHANGED measurements

\* Variant: the chain goes on to the next read after a failed one.
ControlLoop_then_continuing ==
    /\ pc = "await"
    /\ LET q == returned'.op
           res == returned'.res
       IN  /\ measurements' = IF res.ok THEN [measurements EXCEPT ![q] = Some(res.val)]
                                        ELSE measurements
           /\ cycle' = Append(cycle, <<q, IF res.ok THEN "ok" ELSE "err">>)
           /\ pc' = IF Len(cycle') = Len(Chain) THEN "idle" ELSE "measure"

\* The then closure of measure_*, and the and_then/then of the chain, on the
\* result the read future has resolved to.
ControlLoop_then ==
    /\ pc = "await"
    /\ LET q == returned'.op
           res == returned'.res
       IN  IF res.ok
           THEN /\ measurements' = [measurements EXCEPT ![q] = Some(res.val)]
                /\ cycle' = Append(cycle, <<q, "ok">>)
                /\ pc' = IF Len(cycle') = Len(Chain) THEN "idle" ELSE "measure"
           ELSE /\ measurements' = measurements
                /\ cycle' = Append(cycle, <<q, "err">>)
                /\ pc' = "failed"

\* ControlLoop::recover_after_error: self.reconnect()
ControlLoop_recover ==
    /\ pc = "failed"
    /\ SlaveProxy_reconnect(LoopProxy)
    /\ pc' = "recovering"
    /\ cycle' = Append(cycle, <<"reconnect", "invoked">>)
    /\ UNCHANGED measurements

\* Variant: the result of the reconnect unwrapped, as that of the first connect.
ControlLoop_recovered_unwrap(res) ==
    /\ pc = "recovering"
    /\ ReconnectDone(1, res)
    /\ pc' = IF res.ok THEN "idle" ELSE "panicked"
    /\ UNCHANGED <<measurements, cycle>>

\* Variant: the loop rebuilt after a reconnect with measurements: Default::default().
ControlLoop_recovered_default(res) ==
    /\ pc = "recovering"
    /\ ReconnectDone(1, res)
    /\ pc' = "idle"
    /\ measurements' = [q \in DOMAIN measurements |-> Nothing]
    /\ UNCHANGED cycle

\* ControlLoop::recover_after_error: the then closure
ControlLoop_recovered(res) ==
    /\ pc = "recovering"
    /\ ReconnectDone(1, res)
    /\ pc' = "idle"
    /\ UNCHANGED <<measurements, cycle>>

LoopNext ==
    \/ ControlLoop_connect
    \/ ControlLoop_connected(Ok(<<>>))
    \/ \E e \in ConnectErrors : ControlLoop_connected(Err(e))
    \/ ControlLoop_interval
    \/ ControlLoop_timer_error
    \/ ControlLoop_measure
    \/ \E rsp \in Responses : Respond(1, rsp) /\ ControlLoop_then
    \/ \E e \in TransportErrors : TransportError(1, e) /\ ControlLoop_then
    \/ Elapse(1) /\ ControlLoop_then
    \/ Tick /\ UNCHANGED loopvars
    \/ ControlLoop_recover
    \/ ControlLoop_recovered(Ok(<<>>))
    \/ \E e \in ConnectErrors : ControlLoop_recovered(Err(e))

LoopSpec == LoopInit /\ [][LoopNext]_vars

(***************************************************************************)
(* Properties of the control loop (checked under LoopSpec)                 *)
(***************************************************************************)
\* A step in which a read of the control loop fails.
LoopReadFails ==
    \/ pc = "measure" /\ ReadReturnsAtOnce
    \/ pc = "await" /\ ReadResolves /\ ~returned'.res.ok

\* C15 (as stated): no communication error ends the control loop: after every
\* failed read the loop goes on to recover, and after every outcome of a
\* reconnect, that of the very first connect included, it awaits the next
\* cycle.
C15_AsStated ==
    [][/\ LoopReadFails => pc' = "failed"
       /\ ReconnectResolves => pc' = "idle"]_vars

\* C15 (amended): once the first connect has succeeded no communication error
\* ends the control loop: after every failed read the loop invokes reconnect,
\* and after either outcome of that reconnect it awaits the next cycle. A
\* failure of the first connect, made before the loop starts, ends the
\* program; nothing else does but a timer error of the interval, which is no
\* communication error.
C15_LoopSurvivesErrors ==
    [][/\ LoopReadFails => pc' = "failed"
       /\ pc = "failed" => (FactoryInvoked /\ pc' = "recovering")
       /\ (pc = "recovering" /\ ReconnectResolves) => pc' = "idle"
       /\ (pc = "connecting" /\ ReconnectResolves) =>
             pc' = IF returned'.res.ok THEN "idle" ELSE "panicked"
       /\ ReconnectResolves => pc \in {"connecting", "recovering"}
       /\ pc' = "panicked" => pc = "connecting"
       /\ pc' = "aborted" => (pc = "idle" /\ UNCHANGED sessvars)
       /\ pc = "idle" => pc' \in {"measure", "aborted"}]_vars

\* After a failed read the reconnect failed too, and the loop awaits its next
\* cycle on a disconnected session.
C15_Witness ==
    /\ pc = "idle"
    /\ Len(cycle) >= 2
    /\ cycle[Len(cycle)] = <<"reconnect", "invoked">>
    /\ returned.op = "reconnect"
    /\ ~returned.res.ok
    /\ context = Disconnected

\* The reads a cycle has completed, and the reconnects it has invoked.
CycleReads == SelectSeq(cycle, LAMBDA ev : ev[1] # "reconnect")
CycleReconnects == SelectSeq(cycle, LAMBDA ev : ev[1] = "reconnect")

\* C19: the reads of a cycle are those of the chain temperature, water
\* content, permittivity, in this order, each issued when no request and no
\* reconnect is in flight and all reads before it in the cycle have succeeded;
\* a failed read is the last read of its cycle; reconnect is invoked only
\* after a failed read, once, with no request in flight; a cycle ends after
\* three succeeded reads without a reconnect, or with the reconnect after its
\* failed read.
C19_CycleOrder ==
    [][/\ Len(exchanges') <= 1
       /\ Issued =>
             /\ exchanges = <<>> /\ connecting = <<>>
             /\ Len(CycleReads) < 3
             /\ Newest.op = <<"temperature", "water_content", "permittivity">>[Len(CycleReads) + 1]
             /\ \A k \in DOMAIN cycle : cycle[k][2] = "ok"
       /\ (Len(cycle') > Len(cycle) /\ cycle # <<>>) => cycle[Len(cycle)][2] = "ok" \/
             (cycle[Len(cycle)][2] = "err" /\ cycle'[Len(cycle')][1] = "reconnect")
       /\ \A k \in DOMAIN CycleReads' :
             CycleReads'[k][1] = <<"temperature", "water_content", "permittivity">>[k]
       /\ (FactoryInvoked /\ pc # "new") =>
             /\ exchanges = <<>> /\ connecting = <<>>
             /\ cycle # <<>> /\ cycle[Len(cycle)][2] = "err"
             /\ Len(CycleReconnects') = 1
       /\ pc' = "idle" /\ pc # "connecting" =>
             \/ Len(cycle') = 3 /\ \A k \in 1..3 : cycle'[k][2] = "ok"
             \/ /\ Len(cycle') >= 2
                /\ cycle'[Len(cycle')] = <<"reconnect", "invoked">>
                /\ cycle'[Len(cycle') - 1][2] = "err"
                /\ Len(CycleReconnects') = 1]_vars

\* In a cycle the temperature was read, the read of the water content failed,
\* the permittivity was not read, and the one reconnect succeeded.
C19_Witness ==
    /\ pc = "idle"
    /\ cycle = <<<<"temperature", "ok">>, <<"water_content", "err">>, <<"reconnect", "invoked">>>>
    /\ returned.op = "reconnect"
    /\ returned.res.ok
    /\ measurements["temperature"].some
    /\ ~measurements["permittivity"].some

(***************************************************************************)
(* Assigning a slave address: Context::init_slave_device                   *)
(***************************************************************************)
\* let req_adr: u16 = 0x0004
req_adr == 4

\* Responses of the device to the write: single-register-write responses with
\* register addresses and values around the requested ones, and responses of
\* other kinds that carry the requested pair.
RspAddrs == (req_adr - 1)..(req_adr + 1)
RspRegs == 0..(MaxSlave + 1)

InitResponses ==
    {[fn |-> "WriteSingleRegister", addr |-> a, val |-> v] : a \in RspAddrs, v \in RspRegs}
    \cup {[fn |-> "WriteMultipleRegisters", addr |-> req_adr, val |-> v] : v \in RspRegs}
    \cup {[fn |-> "ReadHoldingRegisters", regs |-> <<v>>] : v \in RspRegs}

\* Variant: only the register address of the response compared.
init_slave_device_result_address_only(req, slave, io) ==
    IF io.kind = "error" THEN Err(io.err)
    ELSE IF io.rsp.fn = "WriteSingleRegister" /\ req.addr = io.rsp.addr
         THEN Ok(slave)
         ELSE Err("InvalidData")

\* The closure behind and_then, and the error and_then passes through.
init_slave_device_result(req, slave, io) ==
    IF io.kind = "error" THEN Err(io.err)
    ELSE IF /\ io.rsp.fn = "WriteSingleRegister"
            /\ <<req.addr, req.val>> = <<io.rsp.addr, io.rsp.val>>
         THEN Ok(slave)
         ELSE Err("InvalidData")

\* A context as connect_path returns it: one link, addressed to 0xFD.
InitInit ==
    /\ input = [kind |-> "bytes", val |-> <<>>]
    /\ output = None
    /\ proxies = <<>>
    /\ link_slave = <<BROADCAST_SLAVE>>
    /\ context = 1
    /\ exchanges = <<>>
    /\ connecting = <<>>
    /\ returned = [op |-> "none"]
    /\ LoopAbsent
    /\ MockAbsent

\* self.ctx.call(Request::WriteSingleRegister(req_adr, req_reg))
Context_init_slave_device(slave) ==
    /\ context # Disconnected
    /\ exchanges' = Append(exchanges,
          [proxy |-> 0, op |-> "init", link |-> context, slave |-> slave,
           req |-> write_single_register(link_slave[context], req_adr, slave),
           timeout |-> 0, timer |-> 0, elapsed |-> 0])
    /\ UNCHANGED <<proxies, context, link_slave, connecting, returned, decvars, mockvars>>

\* The future of init_slave_device resolves with the outcome io of the call.
InitDone(i, io) ==
    /\ i \in DOMAIN exchanges
    /\ exchanges[i].op = "init"
    /\ exchanges' = Remove(exchanges, i)
    /\ returned' = [op |-> "init", slave |-> exchanges[i].slave,
                    req |-> exchanges[i].req, io |-> io,
                    res |-> init_slave_device_result(exchanges[i].req,
                                                     exchanges[i].slave, io)]
    /\ UNCHANGED <<proxies, context, link_slave, connecting, decvars, mockvars>>

InitRespond(i, rsp) == InitDone(i, [kind |-> "response", rsp |-> rsp])

InitTransportError(i, e) == InitDone(i, [kind |-> "error", err |-> e])

InitNext ==
    \/ \E slave \in SlaveIds :
          /\ Len(exchanges) < MaxShared
          /\ Context_init_slave_device(slave)
          /\ UNCHANGED loopvars
    \/ \E i \in 1..MaxShared, rsp \in InitResponses :
          InitRespond(i, rsp) /\ UNCHANGED loopvars
    \/ \E i \in 1..MaxShared, e \in TransportErrors :
          InitTransportError(i, e) /\ UNCHANGED loopvars

InitSpec == InitInit /\ [][InitNext]_vars

Echoes(rsp, slave) ==
    /\ rsp.fn = "WriteSingleRegister"
    /\ rsp.addr = 4
    /\ rsp.val = slave

\* C20: init_slave_device writes the requested slave address as a single
\* register at address 4; it succeeds, returning that slave address, only
\* when the response is a single-register-write response that echoes the
\* same register address and the same value, and any other response (other
\* kind, other address, other value) yields an InvalidData error.
C20_InitSlaveDevice ==
    /\ \A i \in DOMAIN exchanges :
          exchanges[i].op = "init" =>
             /\ exchanges[i].req.fn = "write_single_register"
             /\ exchanges[i].req.addr = 4
             /\ exchanges[i].req.val = exchanges[i].slave
    /\ returned.op = "init" =>
          /\ returned.res.ok =>
                /\ returned.res.val = returned.slave
                /\ returned.io.kind = "response"
                /\ Echoes(returned.io.rsp, returned.slave)
          /\ returned.io.kind = "response" =>
                IF Echoes(returned.io.rsp, returned.slave)
                THEN returned.res = Ok(returned.slave)
                ELSE returned.res = Err("InvalidData")

\* The address 2 was written and echoed, and init_slave_device returned it,
\* while a second call is still in flight.
C20_Witness ==
    /\ returned.op = "init"
    /\ returned.slave = 2
    /\ returned.io.kind = "response"
    /\ Echoes(returned.io.rsp, 2)
    /\ returned.res = Ok(2)
    /\ Len(exchanges) = 1

(***************************************************************************)
(* Two proxies on one session: reads, broadcasts and reconnects interleaved*)
(***************************************************************************)
\* The four reads borrow alike; two of them are called here.
BorrowReads == {"temperature", "water_content"}

BorrowNext ==
    \/ \E p \in DOMAIN proxies, q \in BorrowReads, t \in Timeouts :
          Accepts(p, MaxShared) /\ SlaveProxy_read(p, q, t) /\ UNCHANGED loopvars
    \/ \E p \in DOMAIN proxies :
          Accepts(p, MaxShared) /\ SlaveProxy_broadcast_slave(p) /\ UNCHANGED loopvars
    \/ \E i \in 1..MaxShared, rsp \in Responses : Respond(i, rsp) /\ UNCHANGED loopvars
    \/ \E i \in 1..MaxShared, e \in TransportErrors :
          TransportError(i, e) /\ UNCHANGED loopvars
    \/ \E i \in 1..MaxShared : Elapse(i) /\ UNCHANGED loopvars
    \/ \E i \in 1..MaxShared, e \in TransportErrors :
          WriteDone(i, Err(e)) /\ UNCHANGED loopvars
    \/ \E i \in 1..MaxShared : WriteDone(i, Ok(<<>>)) /\ UNCHANGED loopvars
    \/ Tick /\ UNCHANGED loopvars
    \/ \E p \in DOMAIN proxies : SlaveProxy_reconnect(p) /\ UNCHANGED loopvars
    \/ \E i \in DOMAIN proxies : ReconnectDone(i, Ok(<<>>)) /\ UNCHANGED loopvars
    \/ \E i \in DOMAIN proxies, e \in ConnectErrors :
          ReconnectDone(i, Err(e)) /\ UNCHANGED loopvars

BorrowSpec == SharedInit /\ [][BorrowNext]_vars

\* A call has panicked on a RefCell that was already borrowed.
Panicked ==
    /\ returned.op # "none"
    /\ "io" \in DOMAIN returned
    /\ returned.io.kind = "panic"

read_u16_LittleEndian(bytes) ==
    IF Len(bytes) < SizeOfU16
    THEN Err("UnexpectedEof")
    ELSE Ok(bytes[2] * (U8Max + 1) + bytes[1])

\* Cursor::new(bytes).read_u16::<BigEndian>()
read_u16_BigEndian(bytes) ==
    IF Len(bytes) < SizeOfU16
    THEN Err("UnexpectedEof")
    ELSE Ok(bytes[1] * (U8Max + 1) + bytes[2])

\* impl From<VolumetricWaterContentRaw> for VolumetricWaterContent
VolumetricWaterContentRaw_into(raw) == VolumetricWaterContent_from_percent(raw)

\* impl From<RelativePermittivityRaw> for RelativePermittivity
RelativePermittivityRaw_into(raw) == raw

\* The quantities that have a cursor-based decoder.
CursorQuantities == {"temperature", "water_content", "permittivity"}

\* decode_temperature_bytes, decode_water_content_bytes, decode_permittivity_bytes
decode_bytes(q, bytes) ==
    LET raw == read_u16_BigEndian(bytes)
    IN  IF ~raw.ok
        THEN raw
        ELSE CASE q = "temperature" -> Ok(TemperatureRaw_into(raw.val))
               [] q = "water_content" ->
                    LET res == VolumetricWaterContentRaw_into(raw.val)
                    IN  IF VolumetricWaterContent_is_valid(res) THEN Ok(res) ELSE Err("InvalidData")
               [] q = "permittivity" ->
                    LET res == RelativePermittivityRaw_into(raw.val)
                    IN  IF RelativePermittivity_is_valid(res) THEN Ok(res) ELSE Err("InvalidData")

\* The one-register response that holds the 16-bit value at the head of the
\* bytes (a Modbus register is sent high byte first), if there is one.
RegisterResponse(bytes) ==
    IF Len(bytes) < SizeOfU16
    THEN Nothing
    ELSE Some(<<bytes[1] * (U8Max + 1) + bytes[2]>>)

PathInit ==
    /\ input \in ByteInputs
    /\ output = None
    /\ SessInit
    /\ LoopAbsent
    /\ MockAbsent

\* The three decoders of the quantity q applied to the same input.
DecodePaths(q) ==
    /\ output = None
    /\ input.kind = "bytes"
    /\ LET rsp == RegisterResponse(input.val)
       IN  output' = [fn |-> "paths", quantity |-> q,
                      bytes |-> decode_bytes(q, input.val),
                      from_bytes |-> decode_from_bytes(q, input.val),
                      read |-> IF rsp.some
                               THEN Some(read_result(q, [kind |-> "response", rsp |-> rsp.val]))
                               ELSE Nothing]
    /\ UNCHANGED <<input, sessvars, loopvars, mockvars>>

PathNext == \E q \in CursorQuantities : DecodePaths(q)

PathSpec == PathInit /\ [][PathNext]_vars

\* C22: for every byte sequence the cursor-based byte decoder, the
\* remainder-returning byte decoder and, for a one-register response holding
\* the same 16-bit value, the decoding of the proxy read function all succeed
\* or all fail together, and on success yield the same temperature, water
\* content or permittivity.
C22_DecodingPathsAgree ==
    output.fn = "paths" =>
        /\ output.bytes.ok <=> output.from_bytes.ok
        /\ output.read.some => (output.read.val.ok <=> output.bytes.ok)
        /\ output.bytes.ok =>
              /\ output.read.some
              /\ output.bytes.val = output.from_bytes.val[1]
              /\ output.bytes.val = output.read.val.val

\* The bytes 0x0D 0x70 and one more byte decode to 34.40 percent on all three
\* paths.
C22_Witness ==
    /\ Decoded("paths", "water_content")
    /\ Len(input.val) = 3
    /\ input.val[1] = 13 /\ input.val[2] = 112
    /\ output.bytes = Ok(3440)
    /\ output.from_bytes.ok /\ output.from_bytes.val[1] = 3440
    /\ output.read = Some(Ok(3440))

(***************************************************************************)
(* What the control loop keeps (checked under LoopSpec)                    *)
(***************************************************************************)
\* C23: in the control loop a stored measurement changes only when the read
\* of that same quantity succeeds, and then to the value read; a failed read,
\* the reads skipped after it and a reconnect, succeeded or failed, leave the
\* three stored measurements unchanged, and so they leave the proxy's slave
\* address and the slave configuration, with which every read is issued.
C23_MeasurementsRetained ==
    [][/\ \A q \in DOMAIN measurements :
             measurements'[q] # measurements[q] =>
                /\ pc = "await"
                /\ ReadResolves
                /\ returned'.op = q
                /\ returned'.res.ok
                /\ measurements'[q] = [some |-> TRUE, val |-> returned'.res.val]
       /\ (LoopReadFails \/ FactoryInvoked \/ ReconnectResolves) =>
             measurements' = measurements
       /\ proxies' = proxies
       /\ ReadIssues =>
             /\ Newest.proxy = 1
             /\ Newest.req.slave = proxies[1]
             /\ Newest.timeout = 1]_vars

\* A cycle has ended with a failed first read and a failed reconnect, and the
\* temperature and the water content of earlier cycles are still stored.
C23_Witness ==
    /\ pc = "idle"
    /\ cycle = <<<<"temperature", "err">>, <<"reconnect", "invoked">>>>
    /\ returned.op = "reconnect"
    /\ ~returned.res.ok
    /\ measurements["temperature"].some
    /\ measurements["water_content"].some
    /\ ~measurements["permittivity"].some

====
